---- MODULE Spec2Model ----
(***************************************************************************)
(* Multi-engine extraction orchestrator of fastapi-doc-analyze-lite.       *)
(*                                                                         *)
(* One Celery worker process serves extraction requests one after another  *)
(* (specification Spec); the prefork children of a worker, each with its   *)
(* own copy of the settings, serve requests side by side (SpecPool).       *)
(* A pdf request runs process_pdf -> _process_pdf -> process_with_fallbacks*)
(* -> wait_for_celery_task (app/tasks/pdf_tasks.py, celery_tasks.py); an   *)
(* excel request runs process_excel -> _process_excel                      *)
(* (app/tasks/excel_tasks.py).  The descriptor tables live in the          *)
(* process-wide settings object (app/config.py).  Engine jobs run on the   *)
(* background pool: a job is the outcome the engine will produce and the   *)
(* time it needs, both chosen when the job is submitted.                   *)
(*                                                                         *)
(* Beside the request handling stand: the router's wait for one upload     *)
(* (SpecRouter, app/routers/convert.py), the pool's one task queue shared  *)
(* by requests and engine jobs (SpecBroker), process_pdf taken call by     *)
(* call (SpecDirect), the synchronous waiter of the textract path          *)
(* (SpecSync, app/services/processors/pdf/pdf_tasks.py), run_async_task    *)
(* (SpecBridge, app/tasks/async_tasks.py) and start_worker (SpecStarter,   *)
(* app/configs/celery_config.py).                                          *)
(***************************************************************************)
EXTENDS Integers, Sequences, FiniteSets, TLC

\* ---------------------------------------------------------------- bounds
MaxEngines == 2        \* most descriptors configured (both tables together)
MaxLatency == 1        \* longest time a job that completes needs
MaxRequests == 2       \* requests served by the one worker process
\* settings.PDF_PROCESSING_TIMEOUT = int(os.getenv("PDF_PROCESSING_TIMEOUT", 180)):
\* set by the environment, in time units of one polling interval.
PDF_PROCESSING_TIMEOUT == 1
\* The synchronous waiter is called with the literal 180 (services/processors/
\* pdf/pdf_tasks.py line 110), scaled here to polling intervals.
SYNC_TIMEOUT == 1
MaxBootEpoch == 2      \* most by which time.time() is ahead of loop.time()
MaxUptime == 1         \* largest loop.time() when a synchronous wait begins
MaxSyncWait == 4       \* longest synchronous wait followed, in seconds
MaxRetries == 4        \* largest max_retries start_worker is called with
MaxAwaits == 4         \* most suspension points of a coroutine given to run_async_task

\* ------------------------------------------------------- program constants
PollInterval == 1      \* await asyncio.sleep(1) in wait_for_celery_task
SyncPollInterval == 1  \* time.sleep(1) in the synchronous waiter

filename == "a.pdf"                \* file.filename of the upload
\* save_temp_file: temp_path = f"/tmp/{file.filename}"
TempPathOf(name) == "/tmp/" \o name
temp_path == TempPathOf(filename)
\* The files a client uploads.
Uploads == {filename, "b.pdf"}
\* os.path.basename of a path built by save_temp_file.
basename(path) ==
    IF \E n \in Uploads : TempPathOf(n) = path
    THEN CHOOSE n \in Uploads : TempPathOf(n) = path
    ELSE path
file_path == "/tmp/a.xlsx"

\* ------------------------------------------------------------- data model
\* What the dotted path of a descriptor resolves to under importlib/getattr:
\* a Celery task, an object that is not callable, or nothing (ImportError /
\* AttributeError).
Resolutions == {"task", "noncallable", "missing"}

\* A descriptor as written in app/config.py: 'processor' is a dotted-path string.
Descriptor(n, r, p) ==
    [name |-> n, processor |-> [kind |-> "str", resolves |-> r], parallel |-> p]

\* The tables a deployment can configure: position i holds the engine named i.
Tables(maxlen, res) ==
    UNION { { [i \in 1..n |-> Descriptor(i, rs[i], ps[i])] :
                rs \in [1..n -> res], ps \in [1..n -> BOOLEAN] } : n \in 0..maxlen }

\* PDFTextResponse(file_name, text, bounding_boxes).to_dict()
PDFTextResponse(fn, txt, boxes) ==
    [kind |-> "dict", file_name |-> fn, text |-> txt, bounding_boxes |-> boxes]

\* The i-th content block engine e extracts.
Block(e, i) == [engine |-> e, page |-> i, text |-> "t"]

RECURSIVE JoinLines(_)
\* "\n".join([bbox.text for bbox in text_and_boxes])
JoinLines(boxes) ==
    IF boxes = <<>> THEN ""
    ELSE IF Len(boxes) = 1 THEN boxes[1].text
    ELSE boxes[1].text \o "\n" \o JoinLines(Tail(boxes))

\* The response an engine builds from n extracted blocks.
EngineResponse(e, path, n) ==
    LET boxes == [i \in 1..n |-> Block(e, i)]
    IN PDFTextResponse(path, JoinLines(boxes), boxes)

\* A text block whose characters are all white space: muPDF and pdf_miner keep
\* it, with text.strip() == "" (tesseract drops such boxes itself).
BlankBlock(e, i) == [engine |-> e, page |-> i, text |-> ""]

\* The response muPDF or pdf_miner builds from a page whose only text block is
\* blank.
BlankResponse(e, path) ==
    LET boxes == <<BlankBlock(e, 1)>>
    IN PDFTextResponse(path, JoinLines(boxes), boxes)

\* A local variable that has not been assigned.
Unbound == [kind |-> "unbound"]

\* What a finished engine job holds: a response with no block, with two
\* blocks or with one blank block, an exception (job state FAILURE), or a list
\* instead of a mapping (_useTextract returns a list of responses).
JobResults(e, path) ==
    { [state |-> "SUCCESS", result |-> EngineResponse(e, path, n)] : n \in {0, 2} }
    \cup { [state |-> "SUCCESS", result |-> BlankResponse(e, path)] }
    \cup { [state |-> "FAILURE", result |-> [kind |-> "exception"]] }
    \cup { [state |-> "SUCCESS", result |-> [kind |-> "list"]] }

\* How long a job takes on the background pool: it becomes ready after
\* 0..MaxLatency time units, or it never does.
Latencies ==
    { [completes |-> TRUE, after |-> d] : d \in 0..MaxLatency }
    \cup { [completes |-> FALSE, after |-> 0] }

\* Jobs that complete too late for the wait on them: at the first poll past
\* the deadline, and one polling interval after it.
LateLatencies ==
    { [completes |-> TRUE, after |-> PDF_PROCESSING_TIMEOUT + d * PollInterval] : d \in 1..2 }

\* Each engine is a function of the document (every request of the model is
\* for the same file): what the engine's job holds once it is ready.  Only a
\* descriptor that resolves to a task can ever run.
EngineResults(table, path) ==
    { f \in [1..Len(table) -> UNION { JobResults(e, path) : e \in 1..Len(table) }] :
        \A e \in 1..Len(table) :
            IF table[e].processor.resolves = "task"
            THEN f[e] \in JobResults(e, path)
            ELSE f[e] = [state |-> "FAILURE", result |-> [kind |-> "exception"]] }

\* History of a category's first finished request, kept to compare later
\* requests with it: the engines whose jobs it submitted, in order, and the
\* document it returned.  A request in which a job hung is recorded without
\* them, its outcomes not being those of the engines alone.
NotServed == [served |-> FALSE, clean |-> FALSE, attempts |-> <<>>, value |-> Unbound]
Served(js, doc) ==
    IF \A n \in 1..Len(js) : js[n].seen # "timeout"
    THEN [served |-> TRUE, clean |-> TRUE,
          attempts |-> [n \in 1..Len(js) |-> js[n].name], value |-> doc]
    ELSE [served |-> TRUE, clean |-> FALSE, attempts |-> <<>>, value |-> Unbound]

\* The synchronous waiter before a call: the two clocks it reads and the job
\* it will be given.  'wall' is time.time() (seconds since 1970), 'mono' is
\* asyncio.get_event_loop().time() (seconds of the monotonic clock, which
\* starts near the boot of the machine): wall is ahead of mono.
SyncClocks(w, m, job) ==
    [pc |-> "idle", wall |-> w, mono |-> m, start_time |-> 0, began |-> 0,
     completes |-> job.completes, after |-> job.after,
     state |-> job.state, result |-> job.result, outcome |-> Unbound]

\* handle_file_result before the upload is submitted: 'polled' is the time of
\* its last pass through the polling loop.
RouterIdle == [pc |-> "none", start_time |-> 0, polled |-> -1, outcome |-> Unbound]

\* A call of process_pdf before it is made.
DirectCall(path, inner) ==
    [pc |-> "called", temp_path |-> path, inner |-> inner, results |-> Unbound,
     output |-> Unbound]
DirectIdle == DirectCall(temp_path, Unbound)

\* A call of run_async_task before it is made.  'module' is the file the
\* function comes from; 'in_loop' tells whether the caller is itself running
\* inside the thread's event loop (then loop.is_running() is true); 'awaits'
\* is the number of times the coroutine still has to be resumed by its loop
\* and 'outcome' what it ends with.
BridgeCallOf(m, inside, n, out) ==
    [pc |-> "called", module |-> m, in_loop |-> inside, awaits |-> n, outcome |-> out,
     scheduled |-> FALSE, loop_thread |-> IF inside THEN "caller" ELSE "idle",
     result |-> Unbound]
BridgeIdle == BridgeCallOf("tasks", FALSE, 0, [kind |-> "return", value |-> "r"])

\* A call of start_worker(max_retries, delay) before it is made; 'stop_event'
\* is the module's threading.Event, 'calls' counts the calls of app.start(),
\* 'stop_at_top' remembers what the last test of stop_event found and 'ended'
\* how the last call of app.start() ended.
StarterCall(n, stop) ==
    [pc |-> "called", max_retries |-> n, retries |-> 0, calls |-> 0,
     stop_event |-> stop, stop_at_top |-> FALSE, ended |-> "none"]
StarterIdle == StarterCall(0, FALSE)

SyncIdle ==
    SyncClocks(1, 0, [completes |-> TRUE, after |-> 0, state |-> "SUCCESS",
                      result |-> [kind |-> "list"]])

VARIABLES
    PDF_PROCESSOR_PRIORITIZATION,    \* settings.PDF_PROCESSOR_PRIORITIZATION
    EXCEL_PROCESSOR_PRIORITIZATION,  \* settings.EXCEL_PROCESSOR_PRIORITIZATION
    loaded,             \* the two tables as they were at process start
    engine_result,      \* what the job of each pdf engine holds once ready
    pc,                 \* position of the worker in the current request
    category,           \* "pdf" or "excel": the task the worker is running
    i,                  \* index of the descriptor loop of _process_pdf
    processors,         \* local list 'processors' of _process_pdf
    parallel_processors,\* local list 'parallel_processors' of _process_pdf
    j,                  \* index of the comprehension over parallel_processors
    caller,             \* "par" or "seq": who called process_with_fallbacks
    plist,              \* argument 'processors' of process_with_fallbacks
    k,                  \* index of the for loop of process_with_fallbacks
    task,               \* index in jobs of the job being awaited, or 0
    start_time,         \* start_time of wait_for_celery_task
    returned,           \* value process_with_fallbacks returns to its caller
    response,           \* local 'response' of _process_pdf
    jobs,               \* engine jobs submitted by the current request, in order
    now,                \* event-loop time since the request began
    result,             \* what the task (process_pdf / process_excel) produced
    nreq,               \* requests started so far
    first_request,      \* per category: what the first finished request did
    pool,               \* the prefork children of the worker, one record each
    sync_wait,          \* the synchronous waiter of services/processors/pdf/pdf_tasks.py
    router,             \* handle_file_result of routers/convert.py for one upload
    direct,             \* one call of process_pdf followed from argument to result
    broker,             \* the task queue, the pool's slots and the uploads using them
    bridge,             \* one call of run_async_task and the loop it uses
    starter             \* one call of start_worker of configs/celery_config.py

workerVars == <<PDF_PROCESSOR_PRIORITIZATION, EXCEL_PROCESSOR_PRIORITIZATION, loaded,
                engine_result, pc,
                category, i, processors, parallel_processors, j, caller, plist, k, task,
                start_time, returned, response, jobs, now, result, nreq, first_request>>

\* State of the components that stand beside the worker's request handling.
auxVars == <<sync_wait, router, direct, broker, bridge, starter>>

vars == <<workerVars, pool, auxVars>>

settingsVars == <<PDF_PROCESSOR_PRIORITIZATION, EXCEL_PROCESSOR_PRIORITIZATION, loaded,
                  engine_result>>
pwfVars == <<caller, plist, k, task, start_time, returned>>

\* ------------------------------------------------------------ pure pieces
\* callable(processor_func): a Celery task or a functools.partial is callable,
\* a string or a plain object is not.
callable(f) == f.kind \in {"task", "partial"}

\* Whether processor_func.delay exists: only a Celery task has it.
HasDelay(f) == f.kind = "task"

\* ImportProcessor that takes a path which does not resolve for a task.
ImportProcessorUnchecked(p) ==
    IF p.kind # "str" THEN [ok |-> FALSE, func |-> p]
    ELSE IF p.resolves = "noncallable" THEN [ok |-> TRUE, func |-> [kind |-> "object"]]
    ELSE [ok |-> TRUE, func |-> [kind |-> "task"]]

\* Lines 137-143 of _process_pdf: proc['processor'].rsplit('.', 1), then
\* importlib.import_module and getattr.  rsplit exists only on a string; a
\* path that does not resolve raises ImportError or AttributeError.
ImportProcessor(p) ==
    IF p.kind # "str" THEN [ok |-> FALSE, func |-> p]
    ELSE IF p.resolves = "missing" THEN [ok |-> FALSE, func |-> p]
    ELSE IF p.resolves = "task" THEN [ok |-> TRUE, func |-> [kind |-> "task"]]
    ELSE [ok |-> TRUE, func |-> [kind |-> "object"]]

\* task.ready() at time t
ready(job, t) == job.completes /\ t >= job.submitted + job.after

\* wait_for_celery_task without 'if task.failed(): raise task.result': the
\* exception a failed job holds is returned like a result.
wait_returns_failure(job, st, t, timeout) ==
    IF ready(job, t)
    THEN [kind |-> "return", exc |-> "", value |-> job.result]
    ELSE IF t - st > timeout
         THEN [kind |-> "raise", exc |-> "TimeoutError", value |-> Unbound]
         ELSE [kind |-> "sleep", exc |-> "", value |-> Unbound]

\* wait_for_celery_task that, once the deadline has passed, hands out the
\* result the job will have instead of raising.
wait_reads_late(job, st, t, timeout) ==
    IF ready(job, t) \/ (t - st > timeout /\ job.completes)
    THEN IF job.state = "FAILURE"
         THEN [kind |-> "raise", exc |-> "Exception", value |-> job.result]
         ELSE [kind |-> "return", exc |-> "", value |-> job.result]
    ELSE IF t - st > timeout
         THEN [kind |-> "raise", exc |-> "TimeoutError", value |-> Unbound]
         ELSE [kind |-> "sleep", exc |-> "", value |-> Unbound]

\* wait_for_celery_task with the two tests of a pass exchanged: the deadline
\* first, readiness second.
wait_deadline_first(job, st, t, timeout) ==
    IF t - st > timeout
    THEN [kind |-> "raise", exc |-> "TimeoutError", value |-> Unbound]
    ELSE IF ready(job, t)
         THEN IF job.state = "FAILURE"
              THEN [kind |-> "raise", exc |-> "Exception", value |-> job.result]
              ELSE [kind |-> "return", exc |-> "", value |-> job.result]
         ELSE [kind |-> "sleep", exc |-> "", value |-> Unbound]

\* wait_for_celery_task with the deadline test left out.
wait_without_deadline(job, st, t, timeout) ==
    IF ready(job, t)
    THEN IF job.state = "FAILURE"
         THEN [kind |-> "raise", exc |-> "Exception", value |-> job.result]
         ELSE [kind |-> "return", exc |-> "", value |-> job.result]
    ELSE [kind |-> "sleep", exc |-> "", value |-> Unbound]

\* One pass of the polling loop of wait_for_celery_task: readiness first, then
\* the deadline, then sleep.
wait_for_celery_task(job, st, t, timeout) ==
    IF ready(job, t)
    THEN IF job.state = "FAILURE"
         THEN [kind |-> "raise", exc |-> "Exception", value |-> job.result]
         ELSE [kind |-> "return", exc |-> "", value |-> job.result]
    ELSE IF t - st > timeout
         THEN [kind |-> "raise", exc |-> "TimeoutError", value |-> Unbound]
         ELSE [kind |-> "sleep", exc |-> "", value |-> Unbound]

\* Handle that accepts whatever is not a mapping instead of failing on the
\* subscript: a list comes back as the accepted response.
HandleAcceptsList(w) ==
    IF w.kind = "raise" THEN IF w.exc = "TimeoutError" THEN "timeout" ELSE "failed"
    ELSE IF w.value.kind # "dict" THEN "accepted"
    ELSE IF w.value.bounding_boxes # <<>> THEN "accepted"
    ELSE "empty"

\* Handle with the emptiness test of line 72 left out: any mapping is accepted.
HandleAcceptsEmpty(w) ==
    IF w.kind = "raise" THEN IF w.exc = "TimeoutError" THEN "timeout" ELSE "failed"
    ELSE IF w.value.kind # "dict" THEN "malformed"
    ELSE "accepted"

\* Lines 71-77 of process_with_fallbacks: what the loop body does with the
\* outcome w of the wait.  response['bounding_boxes'] on a list raises
\* TypeError, which the except clause absorbs like any other failure.
Handle(w) ==
    IF w.kind = "raise" THEN IF w.exc = "TimeoutError" THEN "timeout" ELSE "failed"
    ELSE IF w.value.kind # "dict" THEN "malformed"
    ELSE IF w.value.bounding_boxes # <<>> THEN "accepted"
    ELSE "empty"

\* Line 89: the value process_with_fallbacks returns when its loop ends.
Exhausted(path) == PDFTextResponse(path, "", <<>>)

\* Lines 183-188 of _process_pdf: log and return 'response'; reading it while
\* unbound raises UnboundLocalError, which the except clause turns into an
\* empty response with file_name "".
InnerReturn(resp) ==
    IF resp = Unbound THEN PDFTextResponse("", "", <<>>) ELSE resp

\* Lines 37-41 of process_pdf, the try body: an exception of run_async_task
\* passes through, a value that is not a mapping fails on the subscript.
ProcessPdfBody(results) ==
    IF results.kind # "dict"
    THEN [kind |-> "raise", value |-> Unbound]
    ELSE IF results.bounding_boxes = <<>>
    THEN [kind |-> "raise", value |-> Unbound]
    ELSE [kind |-> "return", value |-> results]

\* process_pdf without its except clause: the exception leaves the task.
process_pdf_uncaught(path, results) == ProcessPdfBody(results)

\* process_pdf without the emptiness test of line 38: whatever mapping
\* _process_pdf returned is returned.
process_pdf_unfiltered(path, results) ==
    IF results.kind = "dict"
    THEN [kind |-> "return", value |-> results]
    ELSE [kind |-> "return", value |-> PDFTextResponse(path, "", <<>>)]

\* process_pdf: the try body, and the except clause of lines 42-44.
process_pdf(path, results) ==
    LET b == ProcessPdfBody(results)
    IN IF b.kind = "raise"
       THEN [kind |-> "return", value |-> PDFTextResponse(path, "", <<>>)]
       ELSE b

\* {"file_name": file_path, "data": data} of excel_tasks.py
ExcelResponse(fn, data) == [kind |-> "dict", file_name |-> fn, data |-> data]

\* Line 92 of _process_excel: functools.partial(getattr(module, func_name)).
\* partial raises TypeError when its argument is not callable.
PartialOf(imp) ==
    IF imp.ok /\ callable(imp.func)
    THEN [ok |-> TRUE, func |-> [kind |-> "partial"]]
    ELSE [ok |-> FALSE, func |-> imp.func]

\* process_with_fallbacks of excel_tasks.py (lines 49-70) on a list built by
\* _process_excel.  Every processor is a functools.partial: it is callable,
\* processor_func.delay raises AttributeError, the except clause of line 67
\* absorbs it, no job is queued, and line 70 returns the empty response.
ExcelFallbacks(path, procs) ==
    IF \A x \in 1..Len(procs) : ~HasDelay(procs[x].processor)
    THEN ExcelResponse(path, <<>>)
    ELSE Unbound

\* Lines 100-113 of _process_excel.  With parallel processors every
\* process_with_fallbacks(file_path, [processor]) returns the empty response
\* without suspending (or asyncio.wait rejects the bare coroutines with
\* TypeError on Python 3.11+, which line 118 turns into the same response), so
\* 'not response["data"]' holds and the sequential list is tried; it is tried
\* directly when there is no parallel processor.
ExcelPhases(path, par, seq) ==
    IF par # <<>>
    THEN LET first == ExcelFallbacks(path, <<par[1]>>)
         IN IF first.data = <<>> THEN ExcelFallbacks(path, seq) ELSE first
    ELSE ExcelFallbacks(path, seq)

\* Lines 115-120 of _process_excel and 31-36 of process_excel: the response, or
\* the empty response when the try body raised.
process_excel(path, resp) ==
    IF resp.kind = "dict"
    THEN [kind |-> "return", value |-> resp]
    ELSE [kind |-> "return", value |-> ExcelResponse(path, <<>>)]

\* The *_PROCESSING_TIMEOUT attributes class Settings defines, by category:
\* PDF_PROCESSING_TIMEOUT alone.  excel_tasks.py:62 reads
\* settings.EXCEL_PROCESSING_TIMEOUT and word_tasks.py:64 reads
\* settings.WORD_PROCESSING_TIMEOUT; reading either raises AttributeError.
ProcessingTimeouts == [pdf |-> PDF_PROCESSING_TIMEOUT]

\* ------------------------------------------------------------ worker pool
\* 'celery -A app.tasks.celery_config worker' (watchdog_celery.py) starts the
\* default prefork pool: child processes forked from the worker, each with its
\* own copy of the settings object, each running one task at a time.  Two
\* requests are in progress at once only in two children.
Children == {"c1", "c2"}

\* A child as forked: its copy of the pdf table, and the locals of the request
\* it is serving.
Forked(table) ==
    [table |-> table, pc |-> "idle", i |-> 1, processors |-> <<>>,
     parallel_processors |-> <<>>, served |-> 0, overlapped |-> FALSE,
     attempts |-> <<>>, value |-> Unbound]

\* The wait on the job of engine e when the job becomes ready at once.
Resolved(e) ==
    wait_for_celery_task(
        [completes |-> TRUE, submitted |-> 0, after |-> 0,
         state |-> engine_result[e].state, result |-> engine_result[e].result],
        0, 0, PDF_PROCESSING_TIMEOUT)

\* Lines 164-184 of _process_pdf when no job hangs: every parallel processor
\* is tried and its value dropped, then the sequential processors in order up to
\* the first accepted one; 'response' is bound only by the sequential call.
RunPhases(par, seq) ==
    LET acc == { x \in 1..Len(seq) : Handle(Resolved(seq[x].name)) = "accepted" }
        last == IF acc = {} THEN Len(seq)
                ELSE CHOOSE x \in acc : \A y \in acc : x <= y
    IN [attempts |-> [x \in 1..Len(par) |-> par[x].name]
                        \o [x \in 1..last |-> seq[x].name],
        response |-> IF seq = <<>> THEN Unbound
                     ELSE IF acc = {} THEN Exhausted(temp_path)
                     ELSE Resolved(seq[last].name).value]

\* The uploads of one POST to the router, as many as the pool has children:
\* convert_files queues one process_pdf task for each (convert.py 66-82).
PoolRequests == 1..Cardinality(Children)

\* The broker before anything is queued.  Every task of the application goes
\* to the one default queue.  Of each upload: where its process_pdf task is,
\* the index of the engine it is waiting for, when that wait began, when it
\* last polled, which of its engine jobs a child has run, and its result.
BrokerIdle ==
    [queue |-> <<>>,
     slot |-> [c \in Children |-> 0],
     clock |-> 0,
     req |-> [r \in PoolRequests |->
                [pc |-> "new", k |-> 0, start_time |-> 0, polled |-> -1,
                 ran |-> {}, given_up |-> {}, result |-> "none"]]]

\* ------------------------------------------------------------------- Init
Init ==
    /\ PDF_PROCESSOR_PRIORITIZATION \in Tables(MaxEngines, Resolutions)
    /\ EXCEL_PROCESSOR_PRIORITIZATION \in
           Tables(MaxEngines - Len(PDF_PROCESSOR_PRIORITIZATION), Resolutions)
    /\ loaded = [pdf |-> PDF_PROCESSOR_PRIORITIZATION,
                 excel |-> EXCEL_PROCESSOR_PRIORITIZATION]
    /\ engine_result \in EngineResults(PDF_PROCESSOR_PRIORITIZATION, temp_path)
    /\ pc = "idle"
    /\ category = "none"
    /\ i = 1
    /\ processors = <<>>
    /\ parallel_processors = <<>>
    /\ j = 1
    /\ caller = "none"
    /\ plist = <<>>
    /\ k = 1
    /\ task = 0
    /\ start_time = 0
    /\ returned = Unbound
    /\ response = Unbound
    /\ jobs = <<>>
    /\ now = 0
    /\ result = [kind |-> "none", value |-> Unbound]
    /\ nreq = 0
    /\ first_request = [pdf |-> NotServed, excel |-> NotServed]
    /\ pool = [c \in Children |-> Forked(PDF_PROCESSOR_PRIORITIZATION)]
    /\ sync_wait = SyncIdle
    /\ router = RouterIdle
    /\ direct = DirectIdle
    /\ broker = BrokerIdle
    /\ bridge = BridgeIdle
    /\ starter = StarterIdle

\* ---------------------------------------------------------------- actions
\* The worker picks up a process_pdf task: locals are fresh (lines 125-130).
BeginPdf(t) ==
    /\ pc \in {"idle", "done"}
    /\ nreq < MaxRequests
    /\ nreq' = nreq + 1
    /\ category' = "pdf"
    /\ i' = 1
    /\ processors' = <<>>
    /\ parallel_processors' = <<>>
    /\ j' = 1
    /\ caller' = "none"
    /\ plist' = <<>>
    /\ k' = 1
    /\ task' = 0
    /\ start_time' = 0
    /\ returned' = Unbound
    /\ response' = Unbound
    /\ jobs' = <<>>
    /\ now' = t
    /\ result' = [kind |-> "none", value |-> Unbound]
    /\ pc' = IF PDF_PROCESSOR_PRIORITIZATION = <<>> THEN "par" ELSE "load"
    /\ UNCHANGED settingsVars
    /\ UNCHANGED <<first_request, pool, auxVars>>

\* Time is counted from the start of the request.
StartPdf == BeginPdf(0)

\* One iteration of the descriptor loop, lines 132-162 of _process_pdf.
LoadProcessor ==
    /\ pc = "load"
    /\ category = "pdf"
    /\ LET proc == PDF_PROCESSOR_PRIORITIZATION[i]
           imp == ImportProcessor(proc.processor)
           bound == [proc EXCEPT !.processor = imp.func]
       IN IF imp.ok /\ callable(imp.func)
          THEN /\ PDF_PROCESSOR_PRIORITIZATION' =
                      [PDF_PROCESSOR_PRIORITIZATION EXCEPT ![i] = bound]
               /\ IF proc.parallel
                  THEN /\ parallel_processors' = Append(parallel_processors, bound)
                       /\ UNCHANGED processors
                  ELSE /\ processors' = Append(processors, bound)
                       /\ UNCHANGED parallel_processors
          ELSE UNCHANGED <<PDF_PROCESSOR_PRIORITIZATION, processors, parallel_processors>>
    /\ i' = i + 1
    /\ pc' = IF i = Len(PDF_PROCESSOR_PRIORITIZATION) THEN "par" ELSE "load"
    /\ UNCHANGED <<EXCEL_PROCESSOR_PRIORITIZATION, loaded, engine_result, category, j,
                   jobs, now, response, result, nreq>>
    /\ UNCHANGED pwfVars
    /\ UNCHANGED <<first_request, pool, auxVars>>

\* Lines 165-167: the comprehension awaits process_with_fallbacks(temp_path,
\* [processor]) for the next parallel processor.
CallParallel ==
    /\ pc = "par"
    /\ j <= Len(parallel_processors)
    /\ caller' = "par"
    /\ plist' = <<parallel_processors[j]>>
    /\ k' = 1
    /\ pc' = "pwf"
    /\ UNCHANGED <<i, processors, parallel_processors, j, task, start_time, returned,
                   response, jobs, now, result, nreq, category>>
    /\ UNCHANGED settingsVars
    /\ UNCHANGED <<first_request, pool, auxVars>>

\* Lines 180-181: after the comprehension, 'if processors:' calls
\* process_with_fallbacks(temp_path, processors); otherwise 'response' stays
\* unassigned.
CallSequential ==
    /\ pc = "par"
    /\ j > Len(parallel_processors)
    /\ IF processors # <<>>
       THEN /\ caller' = "seq"
            /\ plist' = processors
            /\ k' = 1
            /\ pc' = "pwf"
       ELSE /\ pc' = "ret"
            /\ UNCHANGED <<caller, plist, k>>
    /\ UNCHANGED <<i, processors, parallel_processors, j, task, start_time, returned,
                   response, jobs, now, result, nreq, category>>
    /\ UNCHANGED settingsVars
    /\ UNCHANGED <<first_request, pool, auxVars>>

\* Lines 57-71 of process_with_fallbacks: take the next processor, queue its
\* job with .delay and enter wait_for_celery_task (start_time is read).
SubmitFrom(durations) ==
    /\ pc = "pwf"
    /\ k <= Len(plist)
    /\ IF callable(plist[k].processor)
       THEN \E l \in durations :
              /\ jobs' = Append(jobs,
                    [name |-> plist[k].name, parallel |-> plist[k].parallel,
                     submitted |-> now, completes |-> l.completes, after |-> l.after,
                     state |-> engine_result[plist[k].name].state,
                     result |-> engine_result[plist[k].name].result,
                     seen |-> "pending", resolved |-> 0])
              /\ task' = Len(jobs) + 1
              /\ start_time' = now
              /\ pc' = "wait"
              /\ UNCHANGED k
       ELSE /\ k' = k + 1
            /\ UNCHANGED <<jobs, task, start_time, pc>>
    /\ UNCHANGED <<i, processors, parallel_processors, j, caller, plist, returned,
                   response, now, result, nreq, category>>
    /\ UNCHANGED settingsVars
    /\ UNCHANGED <<first_request, pool, auxVars>>

Submit == SubmitFrom(Latencies)

\* The web process polls once a polling interval too: a second passes only
\* when handle_file_result, if it is waiting, has made its pass.
RouterKeepsUp == router.pc = "waiting" => router.polled = now

\* Poll that stays on the same processor when its attempt was not accepted:
\* the engine is tried again.
PollRetries ==
    /\ pc = "wait"
    /\ LET w == wait_for_celery_task(jobs[task], start_time, now, PDF_PROCESSING_TIMEOUT)
       IN IF w.kind = "sleep"
          THEN /\ RouterKeepsUp
               /\ now' = now + PollInterval
               /\ UNCHANGED <<jobs, k, returned, pc, task>>
          ELSE /\ jobs' = [jobs EXCEPT ![task].seen = Handle(w), ![task].resolved = now]
               /\ task' = 0
               /\ IF Handle(w) = "accepted"
                  THEN /\ returned' = w.value
                       /\ pc' = "pwfret"
                       /\ UNCHANGED k
                  ELSE /\ pc' = "pwf"
                       /\ UNCHANGED <<k, returned>>
               /\ UNCHANGED now
    /\ UNCHANGED <<i, processors, parallel_processors, j, caller, plist, start_time,
                   response, result, nreq, category>>
    /\ UNCHANGED settingsVars
    /\ UNCHANGED <<first_request, pool, auxVars>>

\* One pass of the loop of wait_for_celery_task (celery_tasks.py 26-40) and,
\* when it ends, lines 72-77 of process_with_fallbacks.
Poll ==
    /\ pc = "wait"
    /\ LET w == wait_for_celery_task(jobs[task], start_time, now, PDF_PROCESSING_TIMEOUT)
       IN IF w.kind = "sleep"
          THEN /\ RouterKeepsUp
               /\ now' = now + PollInterval
               /\ UNCHANGED <<jobs, k, returned, pc, task>>
          ELSE /\ jobs' = [jobs EXCEPT ![task].seen = Handle(w), ![task].resolved = now]
               /\ task' = 0
               /\ IF Handle(w) = "accepted"
                  THEN /\ returned' = w.value
                       /\ pc' = "pwfret"
                       /\ UNCHANGED k
                  ELSE /\ k' = k + 1
                       /\ pc' = "pwf"
                       /\ UNCHANGED returned
               /\ UNCHANGED now
    /\ UNCHANGED <<i, processors, parallel_processors, j, caller, plist, start_time,
                   response, result, nreq, category>>
    /\ UNCHANGED settingsVars
    /\ UNCHANGED <<first_request, pool, auxVars>>

\* Line 89: the loop of process_with_fallbacks ended without a return.
Exhaust ==
    /\ pc = "pwf"
    /\ k > Len(plist)
    /\ returned' = Exhausted(temp_path)
    /\ pc' = "pwfret"
    /\ UNCHANGED <<i, processors, parallel_processors, j, caller, plist, k, task,
                   start_time, response, jobs, now, result, nreq, category>>
    /\ UNCHANGED settingsVars
    /\ UNCHANGED <<first_request, pool, auxVars>>

\* Line 167: a call made by the comprehension returned; its value goes into a
\* list that is never read, and the comprehension moves on.
ResumeParallel ==
    /\ pc = "pwfret"
    /\ caller = "par"
    /\ j' = j + 1
    /\ pc' = "par"
    /\ UNCHANGED <<i, processors, parallel_processors, caller, plist, k, task,
                   start_time, returned, response, jobs, now, result, nreq, category>>
    /\ UNCHANGED settingsVars
    /\ UNCHANGED <<first_request, pool, auxVars>>

\* Line 181: response = await process_with_fallbacks(temp_path, processors)
ResumeSequential ==
    /\ pc = "pwfret"
    /\ caller = "seq"
    /\ response' = returned
    /\ pc' = "ret"
    /\ UNCHANGED <<i, processors, parallel_processors, j, caller, plist, k, task,
                   start_time, returned, jobs, now, result, nreq, category>>
    /\ UNCHANGED settingsVars
    /\ UNCHANGED <<first_request, pool, auxVars>>

\* Lines 183-188 of _process_pdf and lines 37-44 of process_pdf.
FinishPdf ==
    /\ pc = "ret"
    /\ result' = process_pdf(temp_path, InnerReturn(response))
    /\ first_request' =
          IF first_request.pdf.served THEN first_request
          ELSE [first_request EXCEPT !.pdf = Served(jobs, result'.value)]
    /\ UNCHANGED <<pool, auxVars>>
    /\ pc' = "done"
    /\ UNCHANGED <<i, processors, parallel_processors, j, response, jobs, now, nreq,
                   category>>
    /\ UNCHANGED pwfVars
    /\ UNCHANGED settingsVars

\* The worker picks up a process_excel task (lines 82-87 of _process_excel).
StartExcel ==
    /\ pc \in {"idle", "done"}
    /\ nreq < MaxRequests
    /\ nreq' = nreq + 1
    /\ category' = "excel"
    /\ i' = 1
    /\ processors' = <<>>
    /\ parallel_processors' = <<>>
    /\ j' = 1
    /\ caller' = "none"
    /\ plist' = <<>>
    /\ k' = 1
    /\ task' = 0
    /\ start_time' = 0
    /\ returned' = Unbound
    /\ response' = Unbound
    /\ jobs' = <<>>
    /\ now' = 0
    /\ result' = [kind |-> "none", value |-> Unbound]
    /\ pc' = IF EXCEL_PROCESSOR_PRIORITIZATION = <<>> THEN "xrun" ELSE "xload"
    /\ UNCHANGED settingsVars
    /\ UNCHANGED <<first_request, pool, auxVars>>

\* One iteration of the descriptor loop, lines 89-98 of _process_excel.  There
\* is no inner try: a failed rsplit, import, getattr or partial leaves the loop
\* for the except clause of line 118.
LoadExcelProcessor ==
    /\ pc = "xload"
    /\ LET proc == EXCEL_PROCESSOR_PRIORITIZATION[i]
           imp == PartialOf(ImportProcessor(proc.processor))
           bound == [proc EXCEPT !.processor = imp.func]
       IN IF imp.ok
          THEN /\ EXCEL_PROCESSOR_PRIORITIZATION' =
                      [EXCEL_PROCESSOR_PRIORITIZATION EXCEPT ![i] = bound]
               /\ IF proc.parallel
                  THEN /\ parallel_processors' = Append(parallel_processors, bound)
                       /\ UNCHANGED processors
                  ELSE /\ processors' = Append(processors, bound)
                       /\ UNCHANGED parallel_processors
               /\ i' = i + 1
               /\ pc' = IF i = Len(EXCEL_PROCESSOR_PRIORITIZATION) THEN "xrun" ELSE "xload"
               /\ UNCHANGED response
          ELSE /\ response' = [kind |-> "exception"]
               /\ pc' = "xret"
               /\ UNCHANGED <<EXCEL_PROCESSOR_PRIORITIZATION, processors,
                              parallel_processors, i>>
    /\ UNCHANGED <<PDF_PROCESSOR_PRIORITIZATION, loaded, engine_result, category, j,
                   jobs, now, result, nreq>>
    /\ UNCHANGED pwfVars
    /\ UNCHANGED <<first_request, pool, auxVars>>

\* Lines 100-113 of _process_excel.
RunExcel ==
    /\ pc = "xrun"
    /\ response' = ExcelPhases(file_path, parallel_processors, processors)
    /\ pc' = "xret"
    /\ UNCHANGED <<i, processors, parallel_processors, j, jobs, now, result, nreq,
                   category>>
    /\ UNCHANGED pwfVars
    /\ UNCHANGED settingsVars
    /\ UNCHANGED <<first_request, pool, auxVars>>

\* Lines 115-120 of _process_excel and lines 31-36 of process_excel.
FinishExcel ==
    /\ pc = "xret"
    /\ result' = process_excel(file_path, response)
    /\ first_request' =
          IF first_request.excel.served THEN first_request
          ELSE [first_request EXCEPT !.excel = Served(jobs, result'.value)]
    /\ UNCHANGED <<pool, auxVars>>
    /\ pc' = "done"
    /\ UNCHANGED <<i, processors, parallel_processors, j, response, jobs, now, nreq,
                   category>>
    /\ UNCHANGED pwfVars
    /\ UNCHANGED settingsVars

Next ==
    \/ StartPdf
    \/ LoadProcessor
    \/ CallParallel
    \/ CallSequential
    \/ Submit
    \/ Poll
    \/ Exhaust
    \/ ResumeParallel
    \/ ResumeSequential
    \/ FinishPdf
    \/ StartExcel
    \/ LoadExcelProcessor
    \/ RunExcel
    \/ FinishExcel

Spec == Init /\ [][Next]_vars

\* ---------------------------------------------------- worker pool actions
Busy(c) == pool[c].pc \in {"load", "run"}

\* Child c picks up a process_pdf task.  It overlaps every request in progress
\* in another child.
PoolStart(c) ==
    /\ pool[c].pc \in {"idle", "done"}
    /\ pool[c].served < MaxRequests
    /\ pool' = [d \in Children |->
                 IF d = c
                 THEN [pool[c] EXCEPT
                         !.pc = IF pool[c].table = <<>> THEN "run" ELSE "load",
                         !.i = 1, !.processors = <<>>, !.parallel_processors = <<>>,
                         !.served = @ + 1,
                         !.overlapped = \E o \in Children \ {c} : Busy(o),
                         !.attempts = <<>>, !.value = Unbound]
                 ELSE IF Busy(d) THEN [pool[d] EXCEPT !.overlapped = TRUE]
                 ELSE pool[d]]
    /\ UNCHANGED <<workerVars, auxVars>>

\* One iteration of the descriptor loop (lines 132-162 of _process_pdf) in
\* child c, on the child's own copy of the table.
PoolLoad(c) ==
    /\ pool[c].pc = "load"
    /\ LET me == pool[c]
           proc == me.table[me.i]
           imp == ImportProcessor(proc.processor)
           bound == [proc EXCEPT !.processor = imp.func]
           ok == imp.ok /\ callable(imp.func)
       IN pool' = [pool EXCEPT ![c] =
             [me EXCEPT
                !.table = IF ok THEN [me.table EXCEPT ![me.i] = bound] ELSE @,
                !.parallel_processors =
                    IF ok /\ proc.parallel THEN Append(@, bound) ELSE @,
                !.processors = IF ok /\ ~proc.parallel THEN Append(@, bound) ELSE @,
                !.i = @ + 1,
                !.pc = IF me.i = Len(me.table) THEN "run" ELSE "load"]]
    /\ UNCHANGED <<workerVars, auxVars>>

\* Lines 164-188 of _process_pdf and lines 37-44 of process_pdf in child c.
PoolRun(c) ==
    /\ pool[c].pc = "run"
    /\ LET me == pool[c]
           r == RunPhases(me.parallel_processors, me.processors)
       IN pool' = [pool EXCEPT ![c] =
             [me EXCEPT
                !.attempts = r.attempts,
                !.value = process_pdf(temp_path, InnerReturn(r.response)).value,
                !.pc = "done"]]
    /\ UNCHANGED <<workerVars, auxVars>>

PoolNext == \E c \in Children : PoolStart(c) \/ PoolLoad(c) \/ PoolRun(c)

SpecPool == Init /\ [][PoolNext]_vars

\* --------------------------------- services/processors/pdf/pdf_tasks.py
\* The textract path: _process_pdf queues textract.useTextract (line 92) and
\* calls the synchronous wait_for_celery_task(task, 180) (line 110).

\* The worker at rest with nothing configured: the state of the request
\* handling while one of the components beside it is followed.
QuietWorker ==
    /\ PDF_PROCESSOR_PRIORITIZATION = <<>>
    /\ EXCEL_PROCESSOR_PRIORITIZATION = <<>>
    /\ loaded = [pdf |-> <<>>, excel |-> <<>>]
    /\ engine_result = <<>>
    /\ pc = "idle"
    /\ category = "none"
    /\ i = 1
    /\ processors = <<>>
    /\ parallel_processors = <<>>
    /\ j = 1
    /\ caller = "none"
    /\ plist = <<>>
    /\ k = 1
    /\ task = 0
    /\ start_time = 0
    /\ returned = Unbound
    /\ response = Unbound
    /\ jobs = <<>>
    /\ now = 0
    /\ result = [kind |-> "none", value |-> Unbound]
    /\ nreq = 0
    /\ first_request = [pdf |-> NotServed, excel |-> NotServed]
    /\ pool = [c \in Children |-> Forked(<<>>)]

\* The jobs the textract task can be: its outcome and the time it needs.
SyncJobs ==
    { [completes |-> l.completes, after |-> l.after, state |-> r.state, result |-> r.result] :
        l \in Latencies, r \in JobResults(1, temp_path) }

InitSync ==
    /\ QuietWorker
    /\ router = RouterIdle
    /\ direct = DirectIdle
    /\ broker = BrokerIdle
    /\ bridge = BridgeIdle
    /\ starter = StarterIdle
    /\ sync_wait \in { SyncClocks(m + b, m, job) :
                          m \in 0..MaxUptime, b \in 1..MaxBootEpoch, job \in SyncJobs }

\* task.ready() at loop time m for a wait that began at loop time 'began'.
SyncReady(w) == w.completes /\ w.mono - w.began >= w.after

\* Line 57: start_time = time.time().
SyncWaitStart ==
    /\ sync_wait.pc = "idle"
    /\ sync_wait' = [sync_wait EXCEPT !.pc = "loop", !.start_time = sync_wait.wall,
                                      !.began = sync_wait.mono]
    /\ UNCHANGED <<workerVars, pool, router, direct, broker, bridge, starter>>

\* One pass of 'while True' (lines 58-66): return task.result when the job is
\* ready; otherwise raise TimeoutError when
\* asyncio.get_event_loop().time() - start_time > timeout; otherwise
\* time.sleep(1).
SyncWaitPass ==
    /\ sync_wait.pc = "loop"
    /\ IF SyncReady(sync_wait)
       THEN sync_wait' = [sync_wait EXCEPT !.pc = "returned",
                              !.outcome = [kind |-> "return", value |-> sync_wait.result]]
       ELSE IF sync_wait.mono - sync_wait.start_time > SYNC_TIMEOUT
       THEN sync_wait' = [sync_wait EXCEPT !.pc = "raised",
                              !.outcome = [kind |-> "raise", value |-> "TimeoutError"]]
       ELSE /\ sync_wait.mono - sync_wait.began < MaxSyncWait
            /\ sync_wait' = [sync_wait EXCEPT !.wall = @ + SyncPollInterval,
                                              !.mono = @ + SyncPollInterval]
    /\ UNCHANGED <<workerVars, pool, router, direct, broker, bridge, starter>>

NextSync == SyncWaitStart \/ SyncWaitPass

SpecSync == InitSync /\ [][NextSync]_vars

\* ------------------------------------------------- routers/convert.py
\* One upload through the web process: convert_files saves the file, queues
\* process_pdf (line 69) and starts handle_file_result (line 81), which waits
\* for the task with wait_for_celery_task(task.id,
\* settings.PDF_PROCESSING_TIMEOUT) (line 135) while a worker runs it.

workerVarsButNow ==
    <<PDF_PROCESSOR_PRIORITIZATION, EXCEL_PROCESSOR_PRIORITIZATION, loaded,
      engine_result, pc, category, i, processors, parallel_processors, j, caller,
      plist, k, task, start_time, returned, response, jobs, result, nreq,
      first_request>>

\* The process_pdf task as AsyncResult(task.id) shows it to the router.
PdfTask ==
    [completes |-> pc = "done", submitted |-> router.start_time, after |-> 0,
     state |-> IF result.kind = "raise" THEN "FAILURE" ELSE "SUCCESS",
     result |-> result.value]

\* Lines 138-180 of handle_file_result: the document stored and returned.
final_result(res) ==
    IF res.kind = "dict"
    THEN [kind |-> "return",
          value |-> [kind |-> "dict", file_name |-> filename, text |-> res.text,
                     bounding_boxes |-> res.bounding_boxes]]
    ELSE [kind |-> "raise", value |-> "TypeError"]

\* Lines 69 and 81: process_pdf.delay(temp_path), then handle_file_result
\* enters wait_for_celery_task and reads start_time.
RouterSubmit ==
    /\ router.pc = "none"
    /\ pc = "idle"
    /\ nreq = 0
    /\ router' = [router EXCEPT !.pc = "waiting", !.start_time = now]
    /\ UNCHANGED <<workerVars, pool, sync_wait, direct, broker, bridge, starter>>

\* A worker takes the queued task, at once or one polling interval later.
RouterPickup ==
    /\ router.pc # "none"
    /\ nreq = 0
    /\ now - router.start_time <= PollInterval
    /\ BeginPdf(now)

\* RouterPoll with a budget that covers two engine attempts.
RouterPollDoubleBudget ==
    /\ router.pc = "waiting"
    /\ router.polled < now
    /\ pc \in {"idle", "wait", "done"}
    /\ LET w == wait_for_celery_task(PdfTask, router.start_time, now,
                                     2 * (PDF_PROCESSING_TIMEOUT + PollInterval))
       IN IF w.kind = "sleep"
          THEN router' = [router EXCEPT !.polled = now]
          ELSE IF w.kind = "return"
          THEN router' = [router EXCEPT !.pc = "delivered", !.polled = now,
                                        !.outcome = final_result(w.value)]
          ELSE router' = [router EXCEPT !.pc = "raised", !.polled = now,
                              !.outcome = [kind |-> "raise", value |-> w.exc]]
    /\ UNCHANGED <<workerVars, pool, sync_wait, direct, broker, bridge, starter>>

\* One pass of the router's polling loop (celery_tasks.py 30-40), and what
\* handle_file_result does when the wait ends.  The pass reads only whether
\* the task has ended, so it is placed between the worker's own waits rather
\* than among the steps the worker takes without waiting.
RouterPoll ==
    /\ router.pc = "waiting"
    /\ router.polled < now
    /\ pc \in {"idle", "wait", "done"}
    /\ LET w == wait_for_celery_task(PdfTask, router.start_time, now,
                                     PDF_PROCESSING_TIMEOUT)
       IN IF w.kind = "sleep"
          THEN router' = [router EXCEPT !.polled = now]
          ELSE IF w.kind = "return"
          THEN router' = [router EXCEPT !.pc = "delivered", !.polled = now,
                                        !.outcome = final_result(w.value)]
          ELSE router' = [router EXCEPT !.pc = "raised", !.polled = now,
                              !.outcome = [kind |-> "raise", value |-> w.exc]]
    /\ UNCHANGED <<workerVars, pool, sync_wait, direct, broker, bridge, starter>>

\* await asyncio.sleep(1) of the router while no worker is waiting on an
\* engine job: the task is still queued, or the worker has finished.
RouterSleep ==
    /\ router.pc = "waiting"
    /\ router.polled = now
    /\ pc \in {"idle", "done"}
    /\ now' = now + PollInterval
    /\ UNCHANGED <<workerVarsButNow, pool, auxVars>>

\* A job that is not done by the deadline of its wait.
SubmitLate == SubmitFrom(LateLatencies)

NextRouter ==
    \/ RouterSubmit \/ RouterPickup \/ RouterPoll \/ RouterSleep
    \/ LoadProcessor \/ CallParallel \/ CallSequential
    \/ Submit \/ SubmitLate \/ Poll \/ Exhaust
    \/ ResumeParallel \/ ResumeSequential \/ FinishPdf

\* The upload is a pdf: the spreadsheet table plays no part.
InitRouter == Init /\ EXCEL_PROCESSOR_PRIORITIZATION = <<>>

SpecRouter == InitRouter /\ [][NextRouter]_vars

\* ------------------------------------------- process_pdf, call by call
\* process_pdf(temp_path) followed from its argument to its result, for
\* whatever run_async_task(_process_pdf, temp_path) hands back: a mapping
\* with any file name, text and block list, a value that is not a mapping,
\* or an exception.
InnerOutcomes(path) ==
    { PDFTextResponse(f, t, b) :
        f \in {path, "", "other.pdf"},
        t \in {"", "t", "t\nt"},
        b \in { [x \in 1..n |-> Block(1, x)] : n \in 0..2 } }
    \cup { [kind |-> "exception"], [kind |-> "list"], Unbound }

InitDirect ==
    /\ QuietWorker
    /\ sync_wait = SyncIdle
    /\ router = RouterIdle
    /\ broker = BrokerIdle
    /\ bridge = BridgeIdle
    /\ starter = StarterIdle
    /\ direct \in UNION { { DirectCall(TempPathOf(n), r) :
                                 r \in InnerOutcomes(TempPathOf(n)) } : n \in Uploads }

\* Line 37: results = run_async_task(_process_pdf, temp_path); _process_pdf
\* ends through lines 183-188.
DirectRun ==
    /\ direct.pc = "called"
    /\ direct' = [direct EXCEPT !.pc = "ran", !.results = InnerReturn(direct.inner)]
    /\ UNCHANGED <<workerVars, pool, sync_wait, router, broker, bridge, starter>>

\* Lines 38-44: the emptiness test, the return and the except clause.
DirectReturn ==
    /\ direct.pc = "ran"
    /\ direct' = [direct EXCEPT !.pc = "returned",
                                !.output = process_pdf(direct.temp_path, direct.results)]
    /\ UNCHANGED <<workerVars, pool, sync_wait, router, broker, bridge, starter>>

NextDirect == DirectRun \/ DirectReturn

SpecDirect == InitDirect /\ [][NextDirect]_vars

\* ------------------------------------------- the pool and its one queue
\* process_pdf is itself a task of the pool: the child that runs it stays in
\* loop.run_until_complete (async_tasks.py 29-33) until _process_pdf ends, and
\* the engine jobs _process_pdf queues with .delay (pdf_tasks.py 63) wait in
\* the same queue for a child that is free.  Here every upload has
\* MaxEngines sequential engines, and every engine job returns a document as
\* soon as a child runs it.

\* Line 69 of convert_files: process_pdf.delay(temp_path).
BrokerUpload(r) ==
    /\ broker.req[r].pc = "new"
    /\ broker' = [broker EXCEPT
                     !.queue = Append(@, [kind |-> "request", req |-> r, engine |-> 0]),
                     !.req[r].pc = "queued"]
    /\ UNCHANGED <<workerVars, pool, sync_wait, router, direct, bridge, starter>>

\* A free child takes the oldest task of the queue.  An engine job it runs to
\* its end.  A process_pdf task it starts: the task queues its first engine
\* job and enters wait_for_celery_task, and the child stays taken.
BrokerTake(c) ==
    /\ broker.slot[c] = 0
    /\ broker.queue # <<>>
    /\ LET head == broker.queue[1]
           r == head.req
       IN IF head.kind = "engine"
          THEN broker' = [broker EXCEPT !.queue = Tail(@),
                                        !.req[r].ran = @ \cup {head.engine}]
          ELSE broker' = [broker EXCEPT
                            !.queue = Append(Tail(@),
                                         [kind |-> "engine", req |-> r, engine |-> 1]),
                            !.slot[c] = r,
                            !.req[r].pc = "waiting",
                            !.req[r].k = 1,
                            !.req[r].start_time = broker.clock]
    /\ UNCHANGED <<workerVars, pool, sync_wait, router, direct, bridge, starter>>

\* One pass of wait_for_celery_task inside the process_pdf task of upload r,
\* and what process_with_fallbacks and process_pdf do when the wait ends: the
\* document is returned, or the next engine is queued, or, after the last
\* one, the empty result is returned; returning frees the child.
BrokerPoll(r) ==
    /\ broker.req[r].pc = "waiting"
    /\ broker.req[r].polled < broker.clock
    /\ LET q == broker.req[r]
           freed == [c \in Children |-> IF broker.slot[c] = r THEN 0 ELSE broker.slot[c]]
       IN IF q.k \in q.ran
          THEN broker' = [broker EXCEPT !.req[r].pc = "done",
                                        !.req[r].result = "document",
                                        !.slot = freed]
          ELSE IF broker.clock - q.start_time > PDF_PROCESSING_TIMEOUT
          THEN IF q.k < MaxEngines
               THEN broker' = [broker EXCEPT
                                 !.queue = Append(@, [kind |-> "engine", req |-> r,
                                                      engine |-> q.k + 1]),
                                 !.req[r].k = q.k + 1,
                                 !.req[r].given_up = @ \cup {q.k},
                                 !.req[r].start_time = broker.clock]
               ELSE broker' = [broker EXCEPT !.req[r].pc = "done",
                                             !.req[r].given_up = @ \cup {q.k},
                                             !.req[r].result = "empty",
                                             !.slot = freed]
          ELSE broker' = [broker EXCEPT !.req[r].polled = broker.clock]
    /\ UNCHANGED <<workerVars, pool, sync_wait, router, direct, bridge, starter>>

\* A second passes: every waiting task has made its pass, and no child is
\* free while a task is queued (a free child takes a queued task at once).
BrokerTick ==
    /\ \E r \in PoolRequests : broker.req[r].pc = "waiting"
    /\ \A r \in PoolRequests :
          broker.req[r].pc = "waiting" => broker.req[r].polled = broker.clock
    /\ ~(broker.queue # <<>> /\ \E c \in Children : broker.slot[c] = 0)
    /\ broker' = [broker EXCEPT !.clock = @ + PollInterval]
    /\ UNCHANGED <<workerVars, pool, sync_wait, router, direct, bridge, starter>>

NextBroker ==
    \/ \E r \in PoolRequests : BrokerUpload(r) \/ BrokerPoll(r)
    \/ \E c \in Children : BrokerTake(c)
    \/ BrokerTick

InitBroker ==
    /\ QuietWorker
    /\ sync_wait = SyncIdle
    /\ router = RouterIdle
    /\ direct = DirectIdle
    /\ broker = BrokerIdle
    /\ bridge = BridgeIdle
    /\ starter = StarterIdle

SpecBroker == InitBroker /\ [][NextBroker]_vars

\* ------------------------------ tasks/async_tasks.py, utils/async_utils.py
\* run_async_task(async_func, *args): loop = asyncio.get_event_loop() is the
\* calling thread's loop.  'loop_thread' tells what that loop's thread is
\* doing: "idle" (the loop is not running), "driving" (inside
\* run_until_complete), "caller" (running the code that called
\* run_async_task) or "blocked" (stuck in a call that does not return to the
\* loop).
InitBridge ==
    /\ QuietWorker
    /\ sync_wait = SyncIdle
    /\ router = RouterIdle
    /\ direct = DirectIdle
    /\ broker = BrokerIdle
    /\ starter = StarterIdle
    /\ bridge \in { BridgeCallOf(m, inside, n, out) :
                       m \in {"tasks", "utils"}, inside \in BOOLEAN, n \in 0..MaxAwaits,
                       out \in { [kind |-> "return", value |-> "r"],
                                 [kind |-> "return", value |-> ""],
                                 [kind |-> "raise", value |-> "Exception"] } }

\* Lines 23-30 (19-24 of async_utils.py): with the loop running,
\* asyncio.run_coroutine_threadsafe(async_func(*args), loop) schedules the
\* coroutine on the loop and future.result() blocks the calling thread until
\* the future is done; otherwise loop.run_until_complete drives the loop.
BridgeEnter ==
    /\ bridge.pc = "called"
    /\ IF bridge.in_loop
       THEN bridge' = [bridge EXCEPT !.pc = "future.result", !.scheduled = TRUE,
                                     !.loop_thread = "blocked"]
       ELSE bridge' = [bridge EXCEPT !.pc = "run_until_complete", !.scheduled = TRUE,
                                     !.loop_thread = "driving"]
    /\ UNCHANGED <<workerVars, pool, sync_wait, router, direct, broker, starter>>

\* The loop resumes the coroutine once: only a loop whose thread is driving
\* it runs callbacks.
BridgeResume ==
    /\ bridge.scheduled
    /\ bridge.loop_thread = "driving"
    /\ bridge.awaits > 0
    /\ bridge' = [bridge EXCEPT !.awaits = @ - 1]
    /\ UNCHANGED <<workerVars, pool, sync_wait, router, direct, broker, starter>>

\* The coroutine ends: its result is returned or its exception raised, lines
\* 31-36 (24 of async_utils.py).
BridgeLeave ==
    /\ bridge.scheduled
    /\ bridge.loop_thread = "driving"
    /\ bridge.awaits = 0
    /\ bridge' = [bridge EXCEPT !.pc = "left", !.scheduled = FALSE,
                                 !.loop_thread = "idle", !.result = bridge.outcome]
    /\ UNCHANGED <<workerVars, pool, sync_wait, router, direct, broker, starter>>

NextBridge == BridgeEnter \/ BridgeResume \/ BridgeLeave

SpecBridge == InitBridge /\ [][NextBridge]_vars

\* -------------------------------------------- configs/celery_config.py
\* start_worker(max_retries=3, delay=5), lines 39-67, and stop_worker, lines
\* 80-85, which another thread may call at any time.
InitStarter ==
    /\ QuietWorker
    /\ sync_wait = SyncIdle
    /\ router = RouterIdle
    /\ direct = DirectIdle
    /\ broker = BrokerIdle
    /\ bridge = BridgeIdle
    /\ starter \in { StarterCall(n, stop) : n \in 0..MaxRetries, stop \in BOOLEAN }

\* Line 47: retries = 0.
StarterEnter ==
    /\ starter.pc = "called"
    /\ starter' = [starter EXCEPT !.pc = "top", !.retries = 0]
    /\ UNCHANGED <<workerVars, pool, sync_wait, router, direct, broker, bridge>>

\* StarterTop without the test of stop_event.
StarterTopIgnoresStop ==
    /\ starter.pc = "top"
    /\ IF starter.retries < starter.max_retries
       THEN starter' = [starter EXCEPT !.pc = "app.start", !.calls = @ + 1,
                                       !.stop_at_top = starter.stop_event]
       ELSE starter' = [starter EXCEPT !.pc = "returned"]
    /\ UNCHANGED <<workerVars, pool, sync_wait, router, direct, broker, bridge>>

\* Lines 48-53: the loop condition, the test of stop_event, and the call of
\* app.start().
StarterTop ==
    /\ starter.pc = "top"
    /\ IF starter.retries < starter.max_retries
       THEN IF starter.stop_event
            THEN starter' = [starter EXCEPT !.pc = "returned", !.stop_at_top = TRUE]
            ELSE starter' = [starter EXCEPT !.pc = "app.start", !.calls = @ + 1,
                                            !.stop_at_top = FALSE]
       ELSE starter' = [starter EXCEPT !.pc = "returned"]
    /\ UNCHANGED <<workerVars, pool, sync_wait, router, direct, broker, bridge>>

\* How a call of app.start() can end: it returns, the user interrupts it,
\* it raises an exception, or it leaves through SystemExit as a command-line
\* entry point does.
StartOutcomes == {"returns", "KeyboardInterrupt", "Exception", "SystemExit"}

\* Lines 53-67: app.start() ends.  A return or KeyboardInterrupt breaks out
\* of the loop; an Exception counts a retry and either sleeps or, at
\* max_retries, breaks; SystemExit is not an Exception and leaves
\* start_worker.
StarterAppStart(out) ==
    /\ starter.pc = "app.start"
    /\ IF out \in {"returns", "KeyboardInterrupt"}
       THEN starter' = [starter EXCEPT !.pc = "returned", !.ended = out]
       ELSE IF out = "Exception"
       THEN starter' = [starter EXCEPT
                          !.retries = @ + 1, !.ended = out,
                          !.pc = IF starter.retries + 1 < starter.max_retries
                                 THEN "time.sleep" ELSE "returned"]
       ELSE starter' = [starter EXCEPT !.pc = "raised", !.ended = out]
    /\ UNCHANGED <<workerVars, pool, sync_wait, router, direct, broker, bridge>>

\* Line 64: time.sleep(delay) ends and the loop goes round.
StarterSleep ==
    /\ starter.pc = "time.sleep"
    /\ starter' = [starter EXCEPT !.pc = "top"]
    /\ UNCHANGED <<workerVars, pool, sync_wait, router, direct, broker, bridge>>

\* stop_worker(): stop_event.set().
stop_worker ==
    /\ ~starter.stop_event
    /\ starter' = [starter EXCEPT !.stop_event = TRUE]
    /\ UNCHANGED <<workerVars, pool, sync_wait, router, direct, broker, bridge>>

NextStarter ==
    \/ StarterEnter \/ StarterTop \/ StarterSleep \/ stop_worker
    \/ \E out \in StartOutcomes : StarterAppStart(out)

\* The thread running start_worker keeps running, every call of app.start()
\* ends and every sleep ends; nothing obliges anyone to call stop_worker.
SpecStarter ==
    /\ InitStarter
    /\ [][NextStarter]_vars
    /\ WF_vars(StarterEnter)
    /\ WF_vars(StarterTop)
    /\ WF_vars(StarterSleep)
    /\ WF_vars(\E out \in StartOutcomes : StarterAppStart(out))

\* ============================================================== properties
PdfDone == pc = "done" /\ category = "pdf"
JobIds == 1..Len(jobs)

\* The job result r is a response with at least one block / with no block.
IsNonEmpty(r) ==
    r.state = "SUCCESS" /\ r.result.kind = "dict" /\ r.result.bounding_boxes # <<>>
IsZeroBlocks(r) ==
    r.state = "SUCCESS" /\ r.result.kind = "dict" /\ r.result.bounding_boxes = <<>>

\* Engines of the pdf table, as loaded at process start, that can run at all,
\* by tier.  An engine's name is its position in the table.
ParEngines ==
    { e \in 1..Len(loaded.pdf) :
        loaded.pdf[e].processor.resolves = "task" /\ loaded.pdf[e].parallel }
SeqEngines ==
    { e \in 1..Len(loaded.pdf) :
        loaded.pdf[e].processor.resolves = "task" /\ ~loaded.pdf[e].parallel }

NoTimeout == \A n \in JobIds : jobs[n].seen # "timeout"

C2_ParallelResultReturned ==
    (PdfDone /\ \E n \in JobIds : jobs[n].parallel /\ jobs[n].seen = "accepted")
       => /\ result.value.bounding_boxes # <<>>
          /\ \E n \in JobIds : jobs[n].parallel /\ result.value = jobs[n].result

\* C3: no sequential-tier job exists in a request in which a parallel-tier job
\* came back non-empty.
C3_NoSequentialAfterParallelSuccess ==
    \A n \in JobIds : ~jobs[n].parallel =>
        \A m \in JobIds : jobs[m].parallel => jobs[m].seen # "accepted"

\* C4: when two parallel-tier jobs both came back non-empty, the document
\* returned is the result of the one that became ready first.
C4_FirstResolvedParallelWins ==
    (PdfDone /\ \E a, b \in JobIds :
                  /\ a # b
                  /\ jobs[a].parallel /\ IsNonEmpty(jobs[a]) /\ jobs[a].completes
                  /\ jobs[b].parallel /\ IsNonEmpty(jobs[b]) /\ jobs[b].completes)
       => \E n \in JobIds :
             /\ jobs[n].parallel /\ IsNonEmpty(jobs[n]) /\ jobs[n].completes
             /\ \A m \in JobIds :
                   (jobs[m].parallel /\ IsNonEmpty(jobs[m]) /\ jobs[m].completes)
                      => jobs[n].submitted + jobs[n].after <= jobs[m].submitted + jobs[m].after
             /\ result.value = jobs[n].result

\* C5: when every parallel-tier engine returns zero blocks and some
\* sequential-tier engine returns a non-empty result (and no job of the request
\* hung), a sequential engine was invoked and accepted and the document
\* returned holds exactly its blocks.
C5_SequentialFallbackReturned ==
    (/\ PdfDone
     /\ ParEngines # {}
     /\ \A e \in ParEngines : IsZeroBlocks(engine_result[e])
     /\ \E e \in SeqEngines : IsNonEmpty(engine_result[e])
     /\ NoTimeout)
       => \E n \in JobIds :
             /\ ~jobs[n].parallel
             /\ jobs[n].seen = "accepted"
             /\ result.value.bounding_boxes = jobs[n].result.bounding_boxes

\* C6: sequential-tier jobs are submitted in table order, each only after the
\* outcome of the one before is known; and the document returned is the result
\* of the first sequential engine, in table order, whose result is non-empty
\* (when such an engine exists and no job of the request hung).
C6_SequentialOrderFirstNonEmpty ==
    /\ \A n, m \in JobIds :
          (n < m /\ ~jobs[n].parallel /\ ~jobs[m].parallel)
             => /\ jobs[n].name < jobs[m].name
                /\ jobs[n].seen # "pending"
                /\ jobs[n].resolved <= jobs[m].submitted
    /\ LET S == { e \in SeqEngines : IsNonEmpty(engine_result[e]) }
       IN (PdfDone /\ S # {} /\ NoTimeout)
             => \E e \in S :
                   /\ \A d \in S : e <= d
                   /\ result.value = engine_result[e].result

\* C7: when the awaited job is ready with zero blocks, or is ready in the failed
\* state, the controller takes the same step: the result is not accepted,
\* nothing is returned, and the loop moves to the next processor of its list.
C7_EmptyLikeFailure ==
    [][ (/\ pc = "wait"
         /\ ready(jobs[task], now)
         /\ (IsZeroBlocks(jobs[task]) \/ jobs[task].state = "FAILURE"))
           => /\ pc' = "pwf"
              /\ k' = k + 1
              /\ jobs'[task].seen \in {"empty", "failed"}
              /\ UNCHANGED <<plist, caller, j, processors, parallel_processors,
                             returned, response, result>> ]_vars

C7_Witness ==
    \E n \in JobIds :
        /\ n < Len(jobs)
        /\ IsZeroBlocks(jobs[n]) /\ jobs[n].seen = "empty"
        /\ ~jobs[n].parallel /\ ~jobs[n + 1].parallel

\* C8: a wait never lasts longer than the timeout plus one polling interval; a
\* job that never becomes ready is given up with a timeout, the task does not
\* raise, and the candidate that follows it was submitted at that moment.
C8_TimeoutBoundedThenNext ==
    /\ pc = "wait" => now - start_time <= PDF_PROCESSING_TIMEOUT + PollInterval
    /\ \A n \in JobIds :
          /\ jobs[n].seen = "timeout" =>
                /\ jobs[n].resolved - jobs[n].submitted > PDF_PROCESSING_TIMEOUT
                /\ jobs[n].resolved - jobs[n].submitted
                      <= PDF_PROCESSING_TIMEOUT + PollInterval
          /\ (~jobs[n].completes /\ jobs[n].seen # "pending") => jobs[n].seen = "timeout"
    /\ PdfDone =>
          /\ result.kind = "return"
          /\ LET order == parallel_processors \o processors
             IN \A n \in JobIds : \A p \in 1..Len(order) :
                   (jobs[n].seen = "timeout" /\ order[p].name = jobs[n].name
                      /\ p < Len(order))
                      => /\ n < Len(jobs)
                         /\ jobs[n + 1].name = order[p + 1].name
                         /\ jobs[n + 1].submitted = jobs[n].resolved

C8_Witness ==
    /\ PdfDone
    /\ \E n \in JobIds :
          /\ n < Len(jobs)
          /\ ~jobs[n].completes /\ jobs[n].seen = "timeout"
          /\ ~jobs[n].parallel /\ ~jobs[n + 1].parallel

C10_TablesReadOnly ==
    /\ PDF_PROCESSOR_PRIORITIZATION = loaded.pdf
    /\ EXCEL_PROCESSOR_PRIORITIZATION = loaded.excel

\* Engines whose jobs the current request submitted, in order.
Attempts == [n \in JobIds |-> jobs[n].name]

\* C11: a finished request in which no job hung attempted the same engines in
\* the same order, and returned the same document, as the first request of its
\* category served by the process (when no job hung in that one either).
C11_SameAsFirstRequest ==
    (/\ pc = "done"
     /\ NoTimeout
     /\ first_request[category].served /\ first_request[category].clean)
       => /\ Attempts = first_request[category].attempts
          /\ result.value = first_request[category].value

\* What a request for the document does when it runs alone in a child just
\* forked: the engines of the table that resolve to a task, by tier.
RunAlone ==
    RunPhases(SelectSeq(loaded.pdf, LAMBDA d : d.processor.resolves = "task" /\ d.parallel),
              SelectSeq(loaded.pdf, LAMBDA d : d.processor.resolves = "task" /\ ~d.parallel))

Returned == result.value

\* C13: a document returned with a non-empty block list has non-blank text in
\* every block.
C13_NoBlankBlockReturned ==
    (PdfDone /\ result.kind = "return")
       => \A b \in 1..Len(Returned.bounding_boxes) :
             Returned.bounding_boxes[b].text # ""

\* C14: in a document returned, text is the block texts joined with newlines
\* in block order; text is empty when there is no block, and there is no block
\* when text is empty.
C14_TextIsJoinedBlocks ==
    (PdfDone /\ result.kind = "return")
       => /\ Returned.text = JoinLines(Returned.bounding_boxes)
          /\ Returned.bounding_boxes = <<>> => Returned.text = ""
          /\ Returned.text = "" => Returned.bounding_boxes = <<>>

\* C15: a parallel-tier job is submitted while every parallel-tier job
\* submitted before it is still pending (the controller has not yet waited for
\* the outcome of any of them), and the parallel phase lasts no longer than one
\* timeout (plus the polling interval).
C15_ParallelSubmittedTogether ==
    [][ /\ (Len(jobs') > Len(jobs) /\ jobs'[Len(jobs')].parallel)
            => \A n \in JobIds : jobs[n].parallel => jobs[n].seen = "pending"
        /\ (pc' = "wait" /\ caller' = "par")
            => now' <= PDF_PROCESSING_TIMEOUT + PollInterval ]_vars

\* C16: a sequential-tier job exists only when every parallel-tier job has
\* resolved without a non-empty result; and when a parallel-tier job came back
\* empty or failed before another parallel-tier job came back non-empty, the
\* document returned is that non-empty result.
C16_SlowerParallelResultKept ==
    /\ \A n \in JobIds : ~jobs[n].parallel =>
          \A m \in JobIds : jobs[m].parallel =>
              jobs[m].seen \in {"empty", "failed", "timeout", "malformed"}
    /\ \A a, b \in JobIds :
          (/\ PdfDone
           /\ a < b
           /\ jobs[a].parallel /\ jobs[a].seen \in {"empty", "failed"}
           /\ jobs[b].parallel /\ jobs[b].seen = "accepted")
             => result.value = jobs[b].result

\* C17: an accepted result has at least one block with non-blank text; a
\* result all of whose blocks are blank is not accepted.
C17_AcceptedHasNonBlankBlock ==
    \A n \in JobIds :
        jobs[n].seen = "accepted"
           => \E b \in 1..Len(jobs[n].result.bounding_boxes) :
                 jobs[n].result.bounding_boxes[b].text # ""

\* C18: when the awaited job is ready and holds a list instead of a mapping,
\* no exception leaves the loop: the engine is not accepted, nothing is
\* returned for it and the loop moves to the next processor of its list; the
\* task never raises and a finished request returns a mapping.
C18_MalformedAbsorbed ==
    [][ /\ (/\ pc = "wait"
            /\ ready(jobs[task], now)
            /\ jobs[task].state = "SUCCESS"
            /\ jobs[task].result.kind = "list")
              => /\ pc' = "pwf"
                 /\ k' = k + 1
                 /\ jobs'[task].seen = "malformed"
                 /\ UNCHANGED <<plist, caller, j, processors, parallel_processors,
                                returned, response, result>>
        /\ result'.kind # "raise"
        /\ (pc' = "done" /\ category' = "pdf") => result'.value.kind = "dict" ]_vars

C18_Witness ==
    /\ PdfDone
    /\ \E n \in JobIds :
          /\ n < Len(jobs)
          /\ jobs[n].result.kind = "list" /\ jobs[n].seen = "malformed"
          /\ ~jobs[n].parallel
          /\ ~jobs[n + 1].parallel /\ jobs[n + 1].seen = "accepted"
    /\ result.kind = "return"
    /\ result.value.bounding_boxes # <<>>

C20_FailureRaisedThenAbsorbed ==
    [][ pc = "wait" =>
          LET job == jobs[task]
              w == wait_for_celery_task(job, start_time, now, PDF_PROCESSING_TIMEOUT)
          IN /\ w.kind = "return" =>
                   /\ ready(job, now) /\ job.state = "SUCCESS"
                   /\ w.value = job.result
             /\ (ready(job, now) /\ job.state = "FAILURE") =>
                   /\ w.kind = "raise" /\ w.exc # "TimeoutError"
                   /\ w.value = job.result
                   /\ jobs'[task].seen = "failed"
                   /\ pc' = "pwf" /\ k' = k + 1
                   /\ UNCHANGED <<returned, response, result>>
                   /\ result'.kind # "raise" ]_vars

C20_Witness ==
    /\ PdfDone
    /\ \E n \in JobIds :
          /\ n < Len(jobs)
          /\ jobs[n].state = "FAILURE" /\ jobs[n].seen = "failed"
          /\ jobs[n + 1].state = "SUCCESS" /\ jobs[n + 1].seen = "accepted"
          /\ result.value = jobs[n + 1].result

\* C21: the synchronous waiter ends a wait for a job that never becomes
\* ready: it is never still waiting once more than 'timeout' seconds, and
\* the one polling interval in which that is noticed, have passed since the
\* wait began.
C21_SyncWaitEnds ==
    sync_wait.pc = "loop" =>
        sync_wait.mono - sync_wait.began <= SYNC_TIMEOUT + SyncPollInterval

\* The wait on job n has ended / ended at a pass at which the job was ready.
WaitEnded(n) == jobs[n].seen # "pending"
ReadyWhenResolved(n) == ready(jobs[n], jobs[n].resolved)
TimedOut == { n \in JobIds : jobs[n].seen = "timeout" }

\* C22: a job that was not ready when the wait on it ended stays a timed-out
\* job for the rest of the request: it is not awaited again, and the
\* non-empty document it produces later is not the one handed back by
\* process_with_fallbacks, kept by _process_pdf or returned by the task.
C22_LateResultNeverAccepted ==
    \A n \in JobIds :
       (WaitEnded(n) /\ ~ReadyWhenResolved(n)) =>
          /\ jobs[n].seen = "timeout"
          /\ task # n
          /\ IsNonEmpty(jobs[n]) =>
                /\ returned # jobs[n].result
                /\ response # jobs[n].result
                /\ result.value # jobs[n].result

\* A request has finished with a document of another engine while the
\* non-empty result of a timed-out job has become available.
C22_Witness ==
    /\ PdfDone
    /\ result.value.bounding_boxes # <<>>
    /\ \E n \in TimedOut :
          /\ IsNonEmpty(jobs[n])
          /\ jobs[n].completes
          /\ now >= jobs[n].submitted + jobs[n].after

C27_ReadinessBeforeDeadline ==
    /\ \A n \in JobIds :
          /\ (WaitEnded(n) /\ ReadyWhenResolved(n)) => jobs[n].seen # "timeout"
          /\ jobs[n].seen = "timeout" =>
                /\ ~ReadyWhenResolved(n)
                /\ jobs[n].resolved - jobs[n].submitted > PDF_PROCESSING_TIMEOUT
    /\ (pc = "wait" /\ now > start_time) =>
          /\ ~ready(jobs[task], now - PollInterval)
          /\ now - PollInterval - start_time <= PDF_PROCESSING_TIMEOUT
    /\ (router.pc = "raised" /\ router.outcome.value = "TimeoutError") =>
          router.polled - router.start_time > PDF_PROCESSING_TIMEOUT

\* A job that became ready only past the deadline was still accepted.
C27_Witness ==
    \E n \in JobIds :
       /\ jobs[n].seen = "accepted"
       /\ jobs[n].resolved - jobs[n].submitted > PDF_PROCESSING_TIMEOUT

\* Names of the engines in a list of descriptors.
NamesOf(list) == { list[x].name : x \in 1..Len(list) }

\* C28: within one request no engine is submitted twice, so an engine whose
\* attempt failed or timed out is not tried again; no engine is in both the
\* parallel and the sequential list, and each job was submitted from the
\* list its descriptor's 'parallel' flag puts it in.
C28_EachEngineAtMostOnce ==
    /\ \A m, n \in JobIds : m # n => jobs[m].name # jobs[n].name
    /\ NamesOf(parallel_processors) \cap NamesOf(processors) = {}
    /\ \A n \in JobIds :
          /\ jobs[n].parallel => jobs[n].name \in NamesOf(parallel_processors)
          /\ ~jobs[n].parallel => jobs[n].name \in NamesOf(processors)

\* A request ended after two engines were submitted, the first of them
\* without success.
C28_Witness ==
    /\ PdfDone
    /\ Len(jobs) = 2
    /\ jobs[1].seen \in {"failed", "timeout", "empty", "malformed"}
    /\ NamesOf(parallel_processors) \cup NamesOf(processors) = {1, 2}

\* C24: the file name of every document process_pdf returns, engine result
\* or empty sentinel, is the base name of the input path: not the full path,
\* not the empty string.
C24_FileNameIsBaseName ==
    (PdfDone /\ result.kind = "return") =>
       /\ Returned.file_name = basename(temp_path)
       /\ Returned.file_name # temp_path
       /\ Returned.file_name # ""

\* The sentinel of process_pdf for a call with argument 'path'.
SentinelFor(path) == PDFTextResponse(path, "", <<>>)

\* C25: process_pdf returns, never raises, and returns one of two shapes:
\* what _process_pdf handed back, unchanged, when that is a mapping with a
\* non-empty block list, and otherwise exactly the sentinel for temp_path;
\* so a returned document with no block has text "" and file name temp_path.
C25_TwoShapes ==
    direct.pc = "returned" =>
       /\ direct.output.kind = "return"
       /\ IF direct.results.kind = "dict" /\ direct.results.bounding_boxes # <<>>
          THEN direct.output.value = direct.results
          ELSE direct.output.value = SentinelFor(direct.temp_path)
       /\ direct.output.value.bounding_boxes = <<>> =>
             /\ direct.output.value.text = ""
             /\ direct.output.value.file_name = direct.temp_path

\* process_pdf has returned after _process_pdf handed back a mapping with no
\* block but with text and a file name of its own.
C25_Witness ==
    /\ direct.pc = "returned"
    /\ direct.results.kind = "dict"
    /\ direct.results.bounding_boxes = <<>>
    /\ direct.results.text # ""
    /\ direct.results.file_name # direct.temp_path
    /\ direct.output.value = SentinelFor(direct.temp_path)

\* C23: a request does not keep a child of the pool while it waits for its
\* engine jobs, so with as many uploads as children every engine job queued
\* is run in time: no wait is given up on a job that no child has run, and
\* no upload ends with the empty result although each of its engines
\* returns a document when run.
C23_NoRequestStarved ==
    \A r \in PoolRequests :
       /\ broker.req[r].given_up \subseteq broker.req[r].ran
       /\ broker.req[r].pc = "done" => broker.req[r].result = "document"

\* C29: in both branches run_async_task leaves the loop it has scheduled the
\* coroutine on free to run it: while the call waits for the coroutine the
\* loop's thread is driving the loop, not blocked, so the call can end with
\* the coroutine's result or exception.
C29_LoopNotBlocked ==
    (bridge.scheduled /\ bridge.pc # "left") => bridge.loop_thread = "driving"

\* start_worker has ended, by return or by an exception that leaves it.
StarterEnded == starter.pc \in {"returned", "raised"}

\* What holds of start_worker at every moment: app.start() has been called at
\* most max_retries times, one call more than it has failed at most; it is
\* not called again after a call that returned or was interrupted; and it is
\* called only when the test of stop_event just before found it clear.
StarterSafe ==
    /\ starter.calls <= starter.max_retries
    /\ starter.calls <= starter.retries + 1
    /\ starter.ended \in {"returns", "KeyboardInterrupt"} =>
          /\ StarterEnded
          /\ starter.calls = starter.retries + 1
    /\ starter.pc = "app.start" => ~starter.stop_at_top
    /\ starter.stop_at_top => StarterEnded

====
